---- MODULE Spec2Model ----
(***************************************************************************)
(* Model of the index-translation, span, unescape and matching operations  *)
(* of wasm-regex (src/src/strops.rs, src/src/error.rs, src/src/lib.rs).    *)
(* The pattern parser, the regex builder and the matcher are library code: *)
(* what they answer for a request is drawn with the arguments (matcher).   *)
(*                                                                         *)
(* A Rust `&str` is modelled as the sequence of its Unicode scalar values; *)
(* its bytes are obtained by really UTF-8 encoding each scalar value, so   *)
(* byte offsets, code-point boundaries and UTF-16 lengths are computed     *)
(* and not assumed.  Byte offsets are 0-based as in the source; TLA+       *)
(* sequences are 1-based, so byte i of the source is element i + 1.        *)
(***************************************************************************)
EXTENDS Integers, Sequences, FiniteSets, TLC

VARIABLES pc, op, s, indices, sep, range, span, reg_exp, flags, rep, matcher,
          local, ret

\* the arguments of the request; no operation assigns them
args == <<op, s, indices, sep, range, span, reg_exp, flags, rep, matcher>>

\* local holds the local variables of an operation that runs step by step
vars == <<pc, args, local, ret>>

(***************************************************************************)
(* Bounds of the model.                                                    *)
(***************************************************************************)
\* longest text (in code points) handed to the translator
MaxChars == 3
\* longest batch of byte offsets handed to the translator in arbitrary order
MaxBatch == 2
\* longest text (in code points) handed to check_unescaped_quotes
MaxQuoteChars == 4
\* longest text (in code points) handed to unescape_impl
MaxUnescChars == 5
\* longest text, in code points, given to unescape_impl as a standard string
MaxStdChars == 4
\* longest text, in code points, given to the span operations
MaxSpanChars == 3
\* longest text, in code points, given to str_from_utf8_rep
MaxRepChars == 3
\* longest text, in code points, given to str_from_utf8_rep when its loop
\* is followed iteration by iteration
MaxLoopChars == 2
\* longest pattern, in code points, and longest flags string given to
\* re_build
MaxPatternChars == 2
MaxFlags == 2
\* longest text, in bytes, searched by re_find_impl and
\* re_replace_list_impl, and the most matches the matcher yields
MaxFindBytes == 3
MaxMatches == 2

(***************************************************************************)
(* Characters.  Scalar values used by the inputs below.                    *)
(***************************************************************************)
Ch(str) ==
  CASE str = "a" -> 97
    [] str = "n" -> 110
    [] str = "quote" -> 34
    [] str = "hash" -> 35
    [] str = "backslash" -> 92
    [] str = "newline" -> 10
    [] str = "tab" -> 9
    [] str = "cr" -> 13
    [] str = "space" -> 32
    [] str = "e_acute" -> 233
    [] str = "euro" -> 8364
    [] str = "grin" -> 128512

\* char::len_utf8
len_utf8(ch) ==
  IF ch < 128 THEN 1 ELSE IF ch < 2048 THEN 2 ELSE IF ch < 65536 THEN 3 ELSE 4

\* char::len_utf16
len_utf16(ch) == IF ch < 65536 THEN 1 ELSE 2

\* char::encode_utf8: the bytes of one scalar value
encode_utf8(ch) ==
  IF ch < 128 THEN <<ch>>
  ELSE IF ch < 2048 THEN <<192 + (ch \div 64), 128 + (ch % 64)>>
  ELSE IF ch < 65536
    THEN <<224 + (ch \div 4096), 128 + ((ch \div 64) % 64), 128 + (ch % 64)>>
    ELSE <<240 + (ch \div 262144), 128 + ((ch \div 4096) % 64),
           128 + ((ch \div 64) % 64), 128 + (ch % 64)>>

\* str::as_bytes
RECURSIVE as_bytes(_)
as_bytes(str) ==
  IF str = <<>> THEN <<>> ELSE encode_utf8(Head(str)) \o as_bytes(Tail(str))

\* byte offset at which the k-th code point (1-based) of str starts
RECURSIVE byte_start(_, _)
byte_start(str, k) ==
  IF k <= 1 THEN 0 ELSE byte_start(str, k - 1) + len_utf8(str[k - 1])

\* str::len (in bytes): the offset just past the last code point
str_len(str) == byte_start(str, Len(str) + 1)

\* str::char_indices: pairs <<byte_idx, ch>>
char_indices(str) == [k \in 1..Len(str) |-> <<byte_start(str, k), str[k]>>]

\* str::is_char_boundary
is_char_boundary(str, i) ==
  \/ i = str_len(str)
  \/ \E k \in 1..Len(str) : byte_start(str, k) = i

\* number of code points of str that start before byte offset i
chars_before(str, i) == Cardinality({k \in 1..Len(str) : byte_start(str, k) < i})

\* sum of char::len_utf16 over the first n code points of str
RECURSIVE sum_len_utf16(_, _)
sum_len_utf16(str, n) ==
  IF n = 0 THEN 0 ELSE sum_len_utf16(str, n - 1) + len_utf16(str[n])

\* utf16_index_bytes: s[..i].chars().map(char::len_utf16).sum().
\* The slice s[..i] panics unless i is a code-point boundary in [0, len].
utf16_index_bytes(str, i) ==
  IF is_char_boundary(str, i)
    THEN [panic |-> FALSE, value |-> sum_len_utf16(str, chars_before(str, i))]
    ELSE [panic |-> TRUE]

\* utf16_index_chars: s.chars().take(i).map(char::len_utf16).sum()
utf16_index_chars(str, i) ==
  sum_len_utf16(str, IF i < Len(str) THEN i ELSE Len(str))

(***************************************************************************)
(* utf16_index_bytes_slice                                                 *)
(***************************************************************************)
\* insertion of x into an ascending sequence
RECURSIVE insert_sorted(_, _)
insert_sorted(seq, x) ==
  IF seq = <<>> THEN <<x>>
  ELSE IF x <= Head(seq) THEN <<x>> \o seq
  ELSE <<Head(seq)>> \o insert_sorted(Tail(seq), x)

\* insertion of x into a descending sequence
RECURSIVE insert_descending(_, _)
insert_descending(seq, x) ==
  IF seq = <<>> THEN <<x>>
  ELSE IF x >= Head(seq) THEN <<x>> \o seq
  ELSE <<Head(seq)>> \o insert_descending(Tail(seq), x)

\* variant of sort_unstable: the descending rearrangement of seq
RECURSIVE sort_unstable_descending(_)
sort_unstable_descending(seq) ==
  IF seq = <<>> THEN <<>>
  ELSE insert_descending(sort_unstable_descending(Tail(seq)), Head(seq))

\* variant of sort_unstable: the batch is left in the caller's order
sort_unstable_skipped(seq) == seq

\* Vec::sort_unstable: the ascending rearrangement of seq
RECURSIVE sort_unstable(_)
sort_unstable(seq) ==
  IF seq = <<>> THEN <<>>
  ELSE insert_sorted(sort_unstable(Tail(seq)), Head(seq))

\* variant of dedup: repeated offsets are kept
dedup_skipped(seq) == seq

\* Vec::dedup: removes consecutive repeated elements
RECURSIVE dedup(_)
dedup(seq) ==
  IF Len(seq) <= 1 THEN seq
  ELSE IF seq[1] = seq[2] THEN dedup(Tail(seq))
  ELSE <<seq[1]>> \o dedup(Tail(seq))

\* variant of char_iter: the running total is read after the char was added
char_iter_total_after(str, k) ==
  <<byte_start(str, k), len_utf8(str[k]), sum_len_utf16(str, k)>>

\* char_iter: its k-th item, the triple
\* <<byte_idx, ch8_len, total_u16_offset before the char>>
char_iter(str, k) ==
  <<byte_start(str, k), len_utf8(str[k]), sum_len_utf16(str, k - 1)>>

\* variant of find_char: the predicate is *b_idx > idxu8
find_char_strict(str, ci, idxu8) ==
  LET hits == {k \in (ci + 1)..Len(str) : byte_start(str, k) > idxu8}
  IN IF hits = {} THEN 0 ELSE CHOOSE k \in hits : \A j \in hits : k <= j

\* char_iter.find(|(b_idx, _, _)| *b_idx >= idxu8) after ci items were consumed:
\* the position of the item found, or 0 when the iterator runs out
find_char(str, ci, idxu8) ==
  LET hits == {k \in (ci + 1)..Len(str) : byte_start(str, k) >= idxu8}
  IN IF hits = {} THEN 0 ELSE CHOOSE k \in hits : \A j \in hits : k <= j

\* variant of residual_after: the residual stays valid four bytes longer
residual_after_too_long(item, idxu8) ==
  IF item[1] > idxu8 THEN <<item[1] + item[2] + 4, item[3]>> ELSE <<>>

\* residual_match = Some((byte_idx + ch8_len, u16_offset)) or None (= <<>>)
residual_after(item, idxu8) ==
  IF item[1] > idxu8 THEN <<item[1] + item[2], item[3]>> ELSE <<>>

\* the while loop: idx is the sorted, de-duplicated batch, k the number of
\* indices already taken from indices_iter, ci the number of items already
\* taken from char_iter (so total_u16_offset = sum_len_utf16(str, ci))
RECURSIVE slice_loop(_, _, _, _, _, _)
slice_loop(str, idx, k, ci, residual_match, acc) ==
  IF k >= Len(idx) THEN acc
  ELSE
    LET idxu8 == idx[k + 1] IN
    IF idxu8 = str_len(str)
      THEN \* Case 1
           Append(acc, <<idxu8, sum_len_utf16(str, Len(str))>>)
    ELSE IF residual_match # <<>> /\ idxu8 < residual_match[1]
      THEN \* Case 2
           slice_loop(str, idx, k + 1, ci, residual_match,
                      Append(acc, <<idxu8, residual_match[2]>>))
    ELSE
      LET j == find_char(str, ci, idxu8) IN
      IF j = 0
        THEN \* Case 4: the iterator is exhausted, total_u16_offset is final
             acc \o [m \in 1..(Len(idx) - k) |->
                       <<idx[k + m], sum_len_utf16(str, Len(str))>>]
        ELSE \* Case 3
             slice_loop(str, idx, k + 1, j,
                        residual_after(char_iter(str, j), idxu8),
                        Append(acc, <<idxu8, char_iter(str, j)[3]>>))

utf16_index_bytes_slice(str, ind) ==
  slice_loop(str, dedup(sort_unstable(ind)), 0, 0, <<>>, <<>>)

(***************************************************************************)
(* str_from_utf8_rep (src/src/strops.rs)                                   *)
(***************************************************************************)
\* the length of the sequence a first byte announces, 0 for a byte that
\* starts no sequence (core::str::validations::utf8_char_width)
utf8_char_width(b) ==
  IF b < 128 THEN 1
  ELSE IF b >= 194 /\ b <= 223 THEN 2
  ELSE IF b >= 224 /\ b <= 239 THEN 3
  ELSE IF b >= 240 /\ b <= 244 THEN 4
  ELSE 0

\* the bytes allowed right after the first byte of a sequence
second_byte_ok(first, second) ==
  CASE first = 224 -> second >= 160 /\ second <= 191
    [] first = 237 -> second >= 128 /\ second <= 159
    [] first = 240 -> second >= 144 /\ second <= 191
    [] first = 244 -> second >= 128 /\ second <= 143
    [] OTHER -> second >= 128 /\ second <= 191

\* str::from_utf8 from byte i (0-based) on: [ok |-> TRUE] or the Utf8Error
\* [ok |-> FALSE, valid_up_to, error_len], error_len 0 standing for None
\* (the input ended inside a sequence)
RECURSIVE run_utf8_validation(_, _)
run_utf8_validation(bytes, i) ==
  IF i >= Len(bytes) THEN [ok |-> TRUE]
  ELSE
    LET first == bytes[i + 1]
        w == utf8_char_width(first)
        err(n) == [ok |-> FALSE, valid_up_to |-> i, error_len |-> n]
        cont(j) == bytes[i + 1 + j] >= 128 /\ bytes[i + 1 + j] <= 191
    IN
    IF w = 0 THEN err(1)
    ELSE IF w = 1 THEN run_utf8_validation(bytes, i + 1)
    ELSE IF i + 1 >= Len(bytes) THEN err(0)
    ELSE IF ~second_byte_ok(first, bytes[i + 2]) THEN err(1)
    ELSE IF w = 2 THEN run_utf8_validation(bytes, i + 2)
    ELSE IF i + 2 >= Len(bytes) THEN err(0)
    ELSE IF ~cont(2) THEN err(2)
    ELSE IF w = 3 THEN run_utf8_validation(bytes, i + 3)
    ELSE IF i + 3 >= Len(bytes) THEN err(0)
    ELSE IF ~cont(3) THEN err(3)
    ELSE run_utf8_validation(bytes, i + 4)

from_utf8(bytes) == run_utf8_validation(bytes, 0)

\* the code points of a valid UTF-8 byte sequence (the str that from_utf8
\* returns)
RECURSIVE chars_of(_)
chars_of(bytes) ==
  IF bytes = <<>> THEN <<>>
  ELSE
    LET w == utf8_char_width(bytes[1])
        low(j) == bytes[j] % 64
        ch == CASE w = 1 -> bytes[1]
                [] w = 2 -> (bytes[1] % 32) * 64 + low(2)
                [] w = 3 -> (bytes[1] % 16) * 4096 + low(2) * 64 + low(3)
                [] w = 4 -> (bytes[1] % 8) * 262144 + low(2) * 4096
                              + low(3) * 64 + low(4)
    IN <<ch>> \o chars_of(SubSeq(bytes, w + 1, Len(bytes)))

\* variant of hex_digit: upper-case digits
hex_digit_upper(d) == IF d < 10 THEN 48 + d ELSE 65 + (d - 10)

\* one digit of the format {:02x}
hex_digit(d) == IF d < 10 THEN 48 + d ELSE 97 + (d - 10)

\* write!(ret, r"\x{byte:02x}"): backslash, x and two hex digits
hex_token(byte) == <<92, 120, hex_digit(byte \div 16), hex_digit(byte % 16)>>

\* the hex tokens of the bytes of a slice, in order
RECURSIVE hex_tokens(_)
hex_tokens(bytes) ==
  IF bytes = <<>> THEN <<>>
  ELSE hex_token(Head(bytes)) \o hex_tokens(Tail(bytes))

\* the loop of str_from_utf8_rep on the remaining slice bslice, ret being
\* the text built so far and iters the iterations started before
RECURSIVE rep_loop(_, _, _)
rep_loop(bslice, acc, iters) ==
  LET utf8_res == from_utf8(bslice) IN
  IF utf8_res.ok
    THEN [panic |-> FALSE, value |-> acc \o chars_of(bslice),
          iters |-> iters + 1]
  ELSE
    LET valid_end == utf8_res.valid_up_to
        rest == SubSeq(bslice, valid_end + 1, Len(bslice))
        invalid_end == IF utf8_res.error_len = 0 THEN Len(rest)
                       ELSE utf8_res.error_len + valid_end
    IN
    IF invalid_end > Len(rest) THEN [panic |-> TRUE]
    ELSE rep_loop(SubSeq(rest, invalid_end + 1, Len(rest)),
                  acc \o chars_of(SubSeq(bslice, 1, valid_end))
                      \o hex_tokens(SubSeq(rest, 1, invalid_end)),
                  iters + 1)

\* variant of rep_step: the first iteration only clears is_first_loop
rep_step_idle_first(bslice, acc, iters) ==
  IF iters = 0
    THEN [next |-> "loop", bslice |-> bslice, value |-> acc, iters |-> 1]
  ELSE
    LET utf8_res == from_utf8(bslice) IN
    IF utf8_res.ok
      THEN [next |-> "returned", bslice |-> <<>>,
            value |-> acc \o chars_of(bslice), iters |-> iters + 1]
    ELSE
      LET valid_end == utf8_res.valid_up_to
          rest == SubSeq(bslice, valid_end + 1, Len(bslice))
          invalid_end == IF utf8_res.error_len = 0 THEN Len(rest)
                         ELSE utf8_res.error_len + valid_end
      IN
      IF invalid_end > Len(rest)
        THEN [next |-> "panicked", bslice |-> rest, value |-> acc,
              iters |-> iters + 1]
        ELSE [next |-> "loop",
              bslice |-> SubSeq(rest, invalid_end + 1, Len(rest)),
              value |-> acc \o chars_of(SubSeq(bslice, 1, valid_end))
                            \o hex_tokens(SubSeq(rest, 1, invalid_end)),
              iters |-> iters + 1]

\* one iteration of the loop of str_from_utf8_rep, from the remaining
\* slice bslice, the text acc built so far and iters iterations done: the
\* values after it and where control goes (the loop again, the return
\* after break, or a panic of the slicing)
rep_step(bslice, acc, iters) ==
  LET utf8_res == from_utf8(bslice) IN
  IF utf8_res.ok
    THEN [next |-> "returned", bslice |-> <<>>,
          value |-> acc \o chars_of(bslice), iters |-> iters + 1]
  ELSE
    LET valid_end == utf8_res.valid_up_to
        rest == SubSeq(bslice, valid_end + 1, Len(bslice))
        invalid_end == IF utf8_res.error_len = 0 THEN Len(rest)
                       ELSE utf8_res.error_len + valid_end
    IN
    IF invalid_end > Len(rest)
      THEN [next |-> "panicked", bslice |-> rest, value |-> acc,
            iters |-> iters + 1]
      ELSE [next |-> "loop",
            bslice |-> SubSeq(rest, invalid_end + 1, Len(rest)),
            value |-> acc \o chars_of(SubSeq(bslice, 1, valid_end))
                          \o hex_tokens(SubSeq(rest, 1, invalid_end)),
            iters |-> iters + 1]

\* str_from_utf8_rep: slicing the bytes panics unless start <= end <= len;
\* a valid slice is returned before the loop (iters = 0)
str_from_utf8_rep(text, start, end) ==
  IF start > end \/ end > str_len(text) THEN [panic |-> TRUE]
  ELSE
    LET bslice == SubSeq(as_bytes(text), start + 1, end) IN
    IF from_utf8(bslice).ok
      THEN [panic |-> FALSE, value |-> chars_of(bslice), iters |-> 0]
      ELSE rep_loop(bslice, <<>>, 0)

(***************************************************************************)
(* Position and Span (src/src/error.rs)                                    *)
(***************************************************************************)
\* the code points of str from byte offset a on: &s[a..] for a boundary a
str_from(str, a) == SubSeq(str, chars_before(str, a) + 1, Len(str))

\* the code points of str before byte offset b: &s[..b] for a boundary b
str_to(str, b) == SubSeq(str, 1, chars_before(str, b))

\* Position::new
Position_new(offset, line, column) ==
  [offset |-> offset, line |-> line, column |-> column]

\* variant of Position_from_offset: every position is put on line 1
Position_from_offset_first_line(str, offset) ==
  IF ~is_char_boundary(str, offset) THEN [panic |-> TRUE]
  ELSE
    LET bytes == as_bytes(str)
        newlines == {i \in 0..(offset - 1) : bytes[i + 1] = 10}
        newline_idx ==
          IF newlines = {} THEN 0
          ELSE (CHOOSE i \in newlines : \A j \in newlines : j <= i) + 1
        col_u8 == offset - newline_idx
        col_u16 == utf16_index_bytes(str_from(str, newline_idx),
                                     offset - newline_idx).value
        offset_u16 == utf16_index_bytes(str, offset).value
    IN [panic |-> FALSE,
        u8 |-> Position_new(offset, 1, col_u8),
        u16 |-> Position_new(offset_u16, 1, col_u16)]

\* variant of Position_from_offset: the UTF-16 column is the byte column
Position_from_offset_byte_column(str, offset) ==
  IF ~is_char_boundary(str, offset) THEN [panic |-> TRUE]
  ELSE
    LET bytes == as_bytes(str)
        newlines == {i \in 0..(offset - 1) : bytes[i + 1] = 10}
        line == 1 + Cardinality(newlines)
        newline_idx ==
          IF newlines = {} THEN 0
          ELSE (CHOOSE i \in newlines : \A j \in newlines : j <= i) + 1
        col_u8 == offset - newline_idx
        offset_u16 == utf16_index_bytes(str, offset).value
    IN [panic |-> FALSE,
        u8 |-> Position_new(offset, line, col_u8),
        u16 |-> Position_new(offset_u16, line, col_u8)]

\* Position::from_offset: the byte-space and the UTF-16-space position of a
\* byte offset; slicing s[..offset] panics off a code-point boundary
Position_from_offset(str, offset) ==
  IF ~is_char_boundary(str, offset) THEN [panic |-> TRUE]
  ELSE
    LET bytes == as_bytes(str)
        newlines == {i \in 0..(offset - 1) : bytes[i + 1] = 10}
        line == 1 + Cardinality(newlines)
        newline_idx ==
          IF newlines = {} THEN 0
          ELSE (CHOOSE i \in newlines : \A j \in newlines : j <= i) + 1
        col_u8 == offset - newline_idx
        col_u16 == utf16_index_bytes(str_from(str, newline_idx),
                                     offset - newline_idx).value
        offset_u16 == utf16_index_bytes(str, offset).value
    IN [panic |-> FALSE,
        u8 |-> Position_new(offset, line, col_u8),
        u16 |-> Position_new(offset_u16, line, col_u16)]

\* variant of increment_line: the line is left as it is
increment_line_skipped(pos) == pos

\* Position::increment_line
increment_line(pos) == [pos EXCEPT !.line = pos.line + 1]

\* variant of Span_from_offsets: no assertion on the range
Span_from_offsets_unasserted(str, a, b) ==
  LET start == Position_from_offset(str, a)
      end == Position_from_offset(str, b)
  IN IF start.panic \/ end.panic THEN [panic |-> TRUE]
     ELSE [panic |-> FALSE,
           span |-> [start |-> start.u8, end |-> increment_line(end.u8)],
           span_utf16 |-> [start |-> start.u16,
                           end |-> increment_line(end.u16)]]

\* Span::from_offsets for the range a..b
Span_from_offsets(str, a, b) ==
  IF ~(a < b) THEN [panic |-> TRUE]
  ELSE
    LET start == Position_from_offset(str, a)
        end == Position_from_offset(str, b)
    IN IF start.panic \/ end.panic THEN [panic |-> TRUE]
       ELSE [panic |-> FALSE,
             span |-> [start |-> start.u8, end |-> increment_line(end.u8)],
             span_utf16 |-> [start |-> start.u16,
                             end |-> increment_line(end.u16)]]

\* str::lines: the text split after every line feed, each line without its
\* line feed and without a carriage return in front of that line feed; no
\* line follows a final line feed and the empty text has no line
RECURSIVE str_lines(_)
str_lines(str) ==
  IF str = <<>> THEN <<>>
  ELSE
    LET feeds == {k \in DOMAIN str : str[k] = 10} IN
    IF feeds = {} THEN <<str>>
    ELSE
      LET k == CHOOSE i \in feeds : \A j \in feeds : i <= j
          raw == SubSeq(str, 1, k - 1)
          line == IF raw # <<>> /\ raw[Len(raw)] = 13
                    THEN SubSeq(raw, 1, Len(raw) - 1) ELSE raw
      IN <<line>> \o str_lines(SubSeq(str, k + 1, Len(str)))

\* convert_re_spans: the byte-space and the UTF-16-space span of an upstream
\* span.  utf16_index_bytes panics off a code-point boundary and
\* lines().nth(line - 1).unwrap() panics when lines() has no such line.
convert_re_spans(str, re_span) ==
  LET off16_start == utf16_index_bytes(str, re_span.start.offset)
      off16_end == utf16_index_bytes(str, re_span.end.offset)
      lines == str_lines(str)
  IN
  IF off16_start.panic \/ off16_end.panic THEN [panic |-> TRUE]
  ELSE IF re_span.start.line - 1 >= Len(lines)
          \/ re_span.end.line - 1 >= Len(lines)
    THEN [panic |-> TRUE]
  ELSE
    LET start_line == lines[re_span.start.line]
        end_line == lines[re_span.end.line]
        col16_start ==
          utf16_index_chars(start_line, re_span.start.column - 1) + 1
        col16_end == utf16_index_chars(end_line, re_span.end.column - 1) + 1
    IN [panic |-> FALSE,
        span |-> [start |-> Position_new(re_span.start.offset,
                                         re_span.start.line,
                                         re_span.start.column),
                  end |-> Position_new(re_span.end.offset, re_span.end.line,
                                       re_span.end.column)],
        span_utf16 |-> [start |-> Position_new(off16_start.value,
                                               re_span.start.line,
                                               col16_start),
                        end |-> Position_new(off16_end.value,
                                             re_span.end.line, col16_end)]]

(***************************************************************************)
(* Literal unescaping (src/src/strops.rs)                                  *)
(***************************************************************************)
\* impl Display for StrType
StrType_fmt(type_) ==
  CASE type_ = "Ignore" -> "unescaped"
    [] type_ = "Str" -> "standard"
    [] type_ = "RawStr" -> "raw"
    [] type_ = "RawStrHash1" -> "r#"
    [] type_ = "RawStrHash2" -> "r##"
    [] type_ = "RawStrHash3" -> "r###"
    [] type_ = "RawStrHash4" -> "r####"

\* an error result carrying an Unescape value built on a span pair
UnescapeErr(message, spans) ==
  IF spans.panic THEN [outcome |-> "panicked"]
  ELSE [outcome |-> "Err", message |-> message,
        span |-> spans.span, span_utf16 |-> spans.span_utf16]

\* tmp_slice.rfind(|ch| ch != '\\').map_or(0, |v| v + 1): one past the byte
\* offset at which the last code point other than a backslash starts
nonslash_idx(tmp_slice) ==
  LET others == {k \in 1..Len(tmp_slice) : tmp_slice[k] # 92}
  IN IF others = {} THEN 0
     ELSE byte_start(tmp_slice, CHOOSE k \in others : \A j \in others : j <= k) + 1

\* the closure of find_map in check_unescaped_quotes, for the byte at idx:
\* TRUE when it answers Some(idx..idx + 1)
bad_quote_at(str, idx) ==
  /\ as_bytes(str)[idx + 1] = 34
  /\ \/ ~is_char_boundary(str, idx)
     \/ str_to(str, idx) = <<>>
     \/ (idx - nonslash_idx(str_to(str, idx))) % 2 # 1

\* check_unescaped_quotes
check_unescaped_quotes(str) ==
  LET bad == {idx \in 0..(str_len(str) - 1) : bad_quote_at(str, idx)}
  IN IF bad = {} THEN [outcome |-> "Ok"]
     ELSE LET idx == CHOOSE i \in bad : \A j \in bad : i <= j
          IN UnescapeErr("unescaped '\"' in string",
                         Span_from_offsets(str, idx, idx + 1))

\* the forbidden pattern of a literal kind (check_pat), <<>> for None
check_pat(type_) ==
  CASE type_ = "Str" -> <<>>
    [] type_ = "RawStr" -> <<34>>
    [] type_ = "RawStrHash1" -> <<34, 35>>
    [] type_ = "RawStrHash2" -> <<34, 35, 35>>
    [] type_ = "RawStrHash3" -> <<34, 35, 35, 35>>
    [] type_ = "RawStrHash4" -> <<34, 35, 35, 35, 35>>

\* variant of str_find: the last occurrence (rfind) instead of the first
str_rfind(str, pat) ==
  LET hay == as_bytes(str)
      needle == as_bytes(pat)
      hits == {i \in 0..(Len(hay) - Len(needle)) :
                 is_char_boundary(str, i)
                 /\ SubSeq(hay, i + 1, i + Len(needle)) = needle}
  IN IF hits = {} THEN -1 ELSE CHOOSE i \in hits : \A j \in hits : j <= i

\* str::find(pat): the first byte offset at which the bytes of pat occur,
\* -1 for None
str_find(str, pat) ==
  LET hay == as_bytes(str)
      needle == as_bytes(pat)
      hits == {i \in 0..(Len(hay) - Len(needle)) :
                 is_char_boundary(str, i)
                 /\ SubSeq(hay, i + 1, i + Len(needle)) = needle}
  IN IF hits = {} THEN -1 ELSE CHOOSE i \in hits : \A j \in hits : i <= j

\* Unescape::from_pat
Unescape_from_pat(str, pat, idx, type_) ==
  UnescapeErr(<<"pattern '", pat, "' may not be contained in ",
                StrType_fmt(type_), " strings">>,
              Span_from_offsets(str, idx, idx + str_len(pat)))

\* scan_escape of rustc_lexer after a backslash, for the escapes made of the
\* characters of the modelled inputs (no \x.. and no \u{..} digits among them)
simple_escape(second_char) ==
  CASE second_char = 34 -> <<"Ok", 34>>
    [] second_char = 110 -> <<"Ok", 10>>
    [] second_char = 114 -> <<"Ok", 13>>
    [] second_char = 116 -> <<"Ok", 9>>
    [] second_char = 92 -> <<"Ok", 92>>
    [] second_char = 39 -> <<"Ok", 39>>
    [] second_char = 48 -> <<"Ok", 0>>
    [] OTHER -> <<"Err", "InvalidEscape">>

\* skip_ascii_whitespace: the first position at or after p that holds no
\* ASCII whitespace
RECURSIVE skip_ascii_whitespace(_, _)
skip_ascii_whitespace(str, p) ==
  IF p <= Len(str) /\ str[p] \in {32, 9, 10, 13}
    THEN skip_ascii_whitespace(str, p + 1) ELSE p

\* unescape_str: the calls of the callback, in order, as
\* <<start, end, result>>, scanning from code point p
RECURSIVE unescape_str(_, _)
unescape_str(str, p) ==
  IF p > Len(str) THEN <<>>
  ELSE
    LET first_char == str[p]
        start == byte_start(str, p)
    IN
    IF first_char = 92 THEN
      IF p + 1 <= Len(str) /\ str[p + 1] = 10
        THEN unescape_str(str, skip_ascii_whitespace(str, p + 1))
      ELSE IF p + 1 > Len(str)
        THEN <<<<start, start + 1, <<"Err", "LoneSlash">>>>>>
      ELSE <<<<start, byte_start(str, p + 2), simple_escape(str[p + 1])>>>>
             \o unescape_str(str, p + 2)
    ELSE
      LET res == IF first_char = 13 THEN <<"Err", "BareCarriageReturn">>
                 ELSE IF first_char = 34 THEN <<"Err", "EscapeOnlyChar">>
                 ELSE <<"Ok", first_char>>
      IN <<<<start, byte_start(str, p + 1), res>>>> \o unescape_str(str, p + 1)

\* escape_error_message, for the errors the modelled inputs can raise
escape_error_message(err) ==
  CASE err = "LoneSlash" -> "escaped '\\' character without continuation"
    [] err = "InvalidEscape" -> "invalid escape character"
    [] err = "BareCarriageReturn" -> "raw '\\r' encountered"
    [] err = "EscapeOnlyChar" ->
         "unescaped character that was expected to be escaped"

\* variant of fold_callback: the callback without its early return once an
\* error is recorded, so later characters are pushed and a later error
\* replaces the first
RECURSIVE fold_callback_no_return(_, _, _)
fold_callback_no_return(calls, acc, err) ==
  IF calls = <<>> THEN <<acc, err>>
  ELSE
    LET c == Head(calls) IN
    IF c[3][1] = "Ok"
      THEN fold_callback_no_return(Tail(calls), Append(acc, c[3][2]), err)
      ELSE fold_callback_no_return(Tail(calls), acc, <<c[1], c[2], c[3][2]>>)

\* the callback of unescape_impl folded over the calls: <<ret, err>> where
\* err is <<>> (None) or <<start, end, kind>>
RECURSIVE fold_callback(_, _, _)
fold_callback(calls, acc, err) ==
  IF calls = <<>> THEN <<acc, err>>
  ELSE
    LET c == Head(calls) IN
    IF err # <<>> THEN fold_callback(Tail(calls), acc, err)
    ELSE IF c[3][1] = "Ok"
      THEN fold_callback(Tail(calls), Append(acc, c[3][2]), err)
      ELSE fold_callback(Tail(calls), acc, <<c[1], c[2], c[3][2]>>)

\* variant of unescape_impl: the quotes of a standard string are validated
\* before the no-backslash fast path
unescape_impl_quotes_first(str, type_) ==
  IF type_ = "Ignore" THEN [outcome |-> "Ok", value |-> str]
  ELSE IF check_pat(type_) # <<>> /\ str_find(str, check_pat(type_)) >= 0
    THEN Unescape_from_pat(str, check_pat(type_),
                           str_find(str, check_pat(type_)), type_)
  ELSE IF type_ # "Str" THEN [outcome |-> "Ok", value |-> str]
  ELSE
    LET quotes == check_unescaped_quotes(str) IN
    IF quotes.outcome # "Ok" THEN quotes
    ELSE IF ~(\E k \in DOMAIN str : str[k] = 92)
      THEN [outcome |-> "Ok", value |-> str]
    ELSE
      LET folded == fold_callback(unescape_str(str, 1), <<>>, <<>>)
          e == folded[2]
      IN IF e = <<>> THEN [outcome |-> "Ok", value |-> folded[1]]
         ELSE UnescapeErr(escape_error_message(e[3]),
                          Span_from_offsets(str, e[1], e[2]))

\* unescape_impl
unescape_impl(str, type_) ==
  IF type_ = "Ignore" THEN [outcome |-> "Ok", value |-> str]
  ELSE IF check_pat(type_) # <<>> /\ str_find(str, check_pat(type_)) >= 0
    THEN Unescape_from_pat(str, check_pat(type_),
                           str_find(str, check_pat(type_)), type_)
  ELSE IF type_ # "Str" \/ ~(\E k \in DOMAIN str : str[k] = 92)
    THEN [outcome |-> "Ok", value |-> str]
  ELSE
    LET quotes == check_unescaped_quotes(str) IN
    IF quotes.outcome # "Ok" THEN quotes
    ELSE
      LET folded == fold_callback(unescape_str(str, 1), <<>>, <<>>)
          e == folded[2]
      IN IF e = <<>> THEN [outcome |-> "Ok", value |-> folded[1]]
         ELSE UnescapeErr(escape_error_message(e[3]),
                          Span_from_offsets(str, e[1], e[2]))

(***************************************************************************)
(* Matching (src/src/lib.rs)                                                *)
(***************************************************************************)
\* slice::binary_search_by_key on the byte-offset key: <<"Ok", position>>
\* (0-based) or <<"Err", insertion point>>
RECURSIVE binary_search_by_key(_, _, _, _)
binary_search_by_key(v, search, left, right) ==
  IF left >= right THEN <<"Err", left>>
  ELSE
    LET mid == left + ((right - left) \div 2) IN
    IF v[mid + 1][1] < search THEN binary_search_by_key(v, search, mid + 1, right)
    ELSE IF v[mid + 1][1] > search THEN binary_search_by_key(v, search, left, mid)
    ELSE <<"Ok", mid>>

\* find_idx: matched_indices[binary_search_by_key(..).unwrap()].1
find_idx(matched_indices, search) ==
  LET r == binary_search_by_key(matched_indices, search, 0, Len(matched_indices))
  IN IF r[1] = "Ok"
       THEN [panic |-> FALSE, value |-> matched_indices[r[2] + 1][2]]
       ELSE [panic |-> TRUE]

\* the flag characters re_build accepts: g i m s U u x
ValidFlags == {103, 105, 109, 115, 85, 117, 120}

\* variant of re_build: a character that is no flag is skipped
re_build_flags_skipped(pattern, flag_chars, m) ==
  IF pattern = <<>> THEN [outcome |-> "Ok", state |-> <<>>]
  ELSE IF m.outcome = "Syntax"
    THEN LET spans == convert_re_spans(pattern, m.span) IN
         IF spans.panic THEN [outcome |-> "panicked"]
         ELSE [outcome |-> "Err", errorClass |-> "RegexSyntax",
               span |-> spans.span, span_utf16 |-> spans.span_utf16]
  ELSE IF m.outcome # "Ok"
    THEN [outcome |-> "Err", errorClass |-> "Regex" \o m.outcome]
  ELSE [outcome |-> "Ok",
        state |-> <<[global |-> \E k \in DOMAIN flag_chars :
                                  flag_chars[k] = 103,
                     options |-> ({flag_chars[k] : k \in DOMAIN flag_chars}
                                    \cap ValidFlags) \ {103}]>>]

\* re_build.  The pattern parser and the regex builder are library code:
\* m.outcome is what they answer for the pattern ("Ok", "Syntax" with the
\* span m.span, "CompiledTooBig" or "Unspecified").  The empty pattern
\* returns before the flags are read; the flag loop panics on the first
\* character it does not know, before the pattern is parsed.
re_build(pattern, flag_chars, m) ==
  IF pattern = <<>> THEN [outcome |-> "Ok", state |-> <<>>]
  ELSE IF \E k \in DOMAIN flag_chars : flag_chars[k] \notin ValidFlags
    THEN [outcome |-> "panicked"]
  ELSE IF m.outcome = "Syntax"
    THEN LET spans == convert_re_spans(pattern, m.span) IN
         IF spans.panic THEN [outcome |-> "panicked"]
         ELSE [outcome |-> "Err", errorClass |-> "RegexSyntax",
               span |-> spans.span, span_utf16 |-> spans.span_utf16]
  ELSE IF m.outcome # "Ok"
    THEN [outcome |-> "Err", errorClass |-> "Regex" \o m.outcome]
  ELSE [outcome |-> "Ok",
        state |-> <<[global |-> \E k \in DOMAIN flag_chars :
                                  flag_chars[k] = 103,
                     options |-> {flag_chars[k] : k \in DOMAIN flag_chars}
                                   \ {103}]>>]

\* variant of taken: no limit, with or without the g flag
taken_unlimited(m, global) == m.caps

\* captures_iter(..).take(limit): the matches the loops consume
taken(m, global) ==
  IF global \/ m.caps = <<>> THEN m.caps ELSE <<m.caps[1]>>

\* variant of cap_ser: every record carries the match number 0
cap_ser_first_match(text, cap_match, match_idx, i) ==
  LET m == cap_match[i + 1] IN
  IF m = <<>>
    THEN [group_name |-> <<>>, match_num |-> 0, group_num |-> i,
          is_participating |-> FALSE, entire_match |-> FALSE,
          content |-> <<>>, start_utf16 |-> <<>>, start |-> <<>>,
          end_utf16 |-> <<>>, end |-> <<>>]
    ELSE [group_name |-> <<>>, match_num |-> 0, group_num |-> i,
          is_participating |-> TRUE, entire_match |-> (i = 0),
          content |-> <<str_from_utf8_rep(text, m[1], m[2]).value>>,
          start_utf16 |-> <<>>, start |-> <<m[1]>>,
          end_utf16 |-> <<>>, end |-> <<m[2]>>]

\* the CapSer of group i (from 0) of match match_idx (from 0); an Option is
\* <<>> for None and <<v>> for Some(v).  The UTF-16 fields are filled in
\* by update_indices_utf16.
cap_ser(text, cap_match, match_idx, i) ==
  LET m == cap_match[i + 1] IN
  IF m = <<>>
    THEN [group_name |-> <<>>, match_num |-> match_idx, group_num |-> i,
          is_participating |-> FALSE, entire_match |-> FALSE,
          content |-> <<>>, start_utf16 |-> <<>>, start |-> <<>>,
          end_utf16 |-> <<>>, end |-> <<>>]
    ELSE [group_name |-> <<>>, match_num |-> match_idx, group_num |-> i,
          is_participating |-> TRUE, entire_match |-> (i = 0),
          content |-> <<str_from_utf8_rep(text, m[1], m[2]).value>>,
          start_utf16 |-> <<>>, start |-> <<m[1]>>,
          end_utf16 |-> <<>>, end |-> <<m[2]>>]

\* the offsets one match pushes to all_indices: start and end of every
\* participating group, in group order
RECURSIVE match_indices(_)
match_indices(cap_match) ==
  IF cap_match = <<>> THEN <<>>
  ELSE Head(cap_match) \o match_indices(Tail(cap_match))

\* all_indices after the loop over the matches
RECURSIVE all_indices(_)
all_indices(caps) ==
  IF caps = <<>> THEN <<>>
  ELSE match_indices(Head(caps)) \o all_indices(Tail(caps))

\* variant of update_one: the UTF-16 end is looked up for the start offset
update_one_start_only(cap, matched_indices) ==
  IF ~cap.is_participating THEN cap
  ELSE [cap EXCEPT
          !.start_utf16 = <<find_idx(matched_indices, cap.start[1]).value>>,
          !.end_utf16 = <<find_idx(matched_indices, cap.start[1]).value>>]

\* the body of the loop of update_indices_utf16 for one CapSer
update_one(cap, matched_indices) ==
  IF ~cap.is_participating THEN cap
  ELSE [cap EXCEPT
          !.start_utf16 = <<find_idx(matched_indices, cap.start[1]).value>>,
          !.end_utf16 = <<find_idx(matched_indices, cap.end[1]).value>>]

\* MatchSer::update_indices_utf16; unwrap() panics when an offset is not
\* among the keys the translator returned
update_indices_utf16(matches, text, inds) ==
  LET matched_indices == utf16_index_bytes_slice(text, inds) IN
  IF \E k \in DOMAIN inds : find_idx(matched_indices, inds[k]).panic
    THEN [panic |-> TRUE]
    ELSE [panic |-> FALSE,
          matches |-> [i \in DOMAIN matches |->
                         [j \in DOMAIN matches[i] |->
                            update_one(matches[i][j], matched_indices)]]]

\* re_find_impl
re_find_impl(text, pattern, flag_chars, m) ==
  LET built == re_build(pattern, flag_chars, m) IN
  IF built.outcome # "Ok" THEN built
  ELSE IF built.state = <<>> THEN [outcome |-> "Ok", matches |-> <<>>]
  ELSE
    LET caps == taken(m, built.state[1].global)
        matches == [i \in DOMAIN caps |->
                      [j \in DOMAIN caps[i] |->
                         cap_ser(text, caps[i], i - 1, j - 1)]]
        res == update_indices_utf16(matches, text, all_indices(caps))
    IN IF res.panic THEN [outcome |-> "panicked"]
       ELSE [outcome |-> "Ok", matches |-> res.matches]

\* Captures::expand for one match, on the replacement strings of the
\* modelled inputs: $ and a digit stand for the bytes of that group (none
\* when the group is missing or did not participate), any other character
\* for its own bytes
RECURSIVE expand(_, _, _)
expand(text, cap_match, replacement) ==
  IF replacement = <<>> THEN <<>>
  ELSE IF replacement[1] = 36 /\ Len(replacement) >= 2
          /\ replacement[2] \in 48..57
    THEN LET g == replacement[2] - 48
             bytes == IF g < Len(cap_match) /\ cap_match[g + 1] # <<>>
                        THEN SubSeq(as_bytes(text), cap_match[g + 1][1] + 1,
                                    cap_match[g + 1][2])
                        ELSE <<>>
         IN bytes \o expand(text, cap_match,
                            SubSeq(replacement, 3, Len(replacement)))
    ELSE encode_utf8(replacement[1])
           \o expand(text, cap_match, Tail(replacement))

\* dest after the loop of re_replace_list_impl over the given matches
RECURSIVE expand_all(_, _, _)
expand_all(text, caps, replacement) ==
  IF caps = <<>> THEN <<>>
  ELSE expand(text, Head(caps), replacement)
         \o expand_all(text, Tail(caps), replacement)

\* String::from_utf8_lossy: every invalid sequence becomes U+FFFD
RECURSIVE from_utf8_lossy(_)
from_utf8_lossy(bytes) ==
  LET res == from_utf8(bytes) IN
  IF res.ok THEN chars_of(bytes)
  ELSE
    LET invalid_end == IF res.error_len = 0 THEN Len(bytes)
                       ELSE res.valid_up_to + res.error_len
    IN chars_of(SubSeq(bytes, 1, res.valid_up_to)) \o <<65533>>
         \o from_utf8_lossy(SubSeq(bytes, invalid_end + 1, Len(bytes)))

\* re_replace_list_impl
re_replace_list_impl(text, pattern, replacement, flag_chars, m) ==
  LET built == re_build(pattern, flag_chars, m) IN
  IF built.outcome # "Ok" THEN built
  ELSE IF built.state = <<>> THEN [outcome |-> "Ok", result |-> <<>>]
  ELSE [outcome |-> "Ok",
        result |-> from_utf8_lossy(
                     expand_all(text, taken(m, built.state[1].global),
                                replacement))]

(***************************************************************************)
(* Inputs                                                                  *)
(***************************************************************************)
\* all sequences over alphabet of length at most n
SeqsUpTo(alphabet, n) == UNION {[1..m -> alphabet] : m \in 0..n}

TranslatorChars == {Ch("a"), Ch("e_acute"), Ch("grin")}
TranslatorTexts == SeqsUpTo(TranslatorChars, MaxChars)

\* texts for check_unescaped_quotes: quotes, backslashes, an ASCII letter
\* and a two-byte character
QuoteChars == {Ch("a"), Ch("quote"), Ch("backslash"), Ch("e_acute")}
QuoteTexts == SeqsUpTo(QuoteChars, MaxQuoteChars)

\* texts for unescape_impl: the delimiter characters, backslash and a letter
\* that makes the escape \n
UnescapeChars == {Ch("quote"), Ch("hash"), Ch("backslash"), Ch("n")}
UnescapeTexts == SeqsUpTo(UnescapeChars, MaxUnescChars)

\* texts for unescape_impl on standard strings: quote, backslash, the letter
\* of the escape \n, a two-byte character (also an invalid escape letter)
\* and a line feed (line continuation, spans over several lines)
StdChars == {Ch("quote"), Ch("backslash"), Ch("n"), Ch("e_acute"),
             Ch("newline")}
StdTexts == SeqsUpTo(StdChars, MaxStdChars)

\* texts for the span operations: an ASCII letter, a four-byte character
\* (two UTF-16 units), a line feed and a carriage return
SpanChars == {Ch("a"), Ch("grin"), Ch("newline"), Ch("cr")}
SpanTexts == SeqsUpTo(SpanChars, MaxSpanChars)

\* byte ranges start..end for a text, in or out of order, on or off a
\* code-point boundary, up to one past the end
Ranges(str) == (0..(str_len(str) + 1)) \X (0..(str_len(str) + 1))

\* the position the pattern parser reports for byte offset o of str, a
\* code-point boundary: lines are counted by line feeds, columns by
\* characters since the last line feed, both from 1
consistent_position(str, o) ==
  LET n == chars_before(str, o)
      feeds == {k \in 1..n : str[k] = 10}
      last_feed == IF feeds = {} THEN 0
                   ELSE CHOOSE i \in feeds : \A j \in feeds : j <= i
  IN Position_new(o, 1 + Cardinality(feeds), 1 + (n - last_feed))

ConsistentPositions(str) ==
  {consistent_position(str, o) :
     o \in {i \in 0..str_len(str) : is_char_boundary(str, i)}}

\* upstream positions for a text: the consistent ones, every byte offset up
\* to one past the end (line 1, column 1), and every line up to one past
\* the last with every column up to one past the longest line (offset 0)
UpstreamPositions(str) ==
  ConsistentPositions(str)
    \cup {Position_new(o, 1, 1) : o \in 0..(str_len(str) + 1)}
    \cup {Position_new(0, l, c) :
            l \in 1..(Cardinality({k \in DOMAIN str : str[k] = 10}) + 2),
            c \in 1..(Len(str) + 2)}

\* upstream spans: any start position with a consistent end position or
\* with itself as the end (both positions are converted by the same steps)
UpstreamSpans(str) ==
  {sp \in [start : UpstreamPositions(str), end : UpstreamPositions(str)] :
     sp.end \in ConsistentPositions(str) \/ sp.end = sp.start}

\* texts for str_from_utf8_rep: characters of one, two, three and four
\* bytes
RepChars == {Ch("a"), Ch("e_acute"), Ch("euro"), Ch("grin")}
RepTexts == SeqsUpTo(RepChars, MaxRepChars)
LoopTexts == SeqsUpTo(RepChars, MaxLoopChars)

\* patterns for re_build: a letter and a line feed
PatternChars == {Ch("a"), Ch("newline")}
PatternTexts == SeqsUpTo(PatternChars, MaxPatternChars)

\* flags for re_build: the seven flags and a character that is none (z)
FlagChars == ValidFlags \cup {122}
FlagTexts == SeqsUpTo(FlagChars, MaxFlags)

\* spans the pattern parser can report: consistent positions in order
ParserSpans(str) ==
  {sp \in [start : ConsistentPositions(str), end : ConsistentPositions(str)] :
     sp.start.offset <= sp.end.offset}

\* what the parser and the builder can answer for a pattern
BuildAnswers(str) ==
  {[outcome |-> o, span |-> <<>>, caps |-> <<>>] :
     o \in {"Ok", "CompiledTooBig", "Unspecified"}}
    \cup {[outcome |-> "Syntax", span |-> sp, caps |-> <<>>] :
            sp \in ParserSpans(str)}

\* texts searched: one-byte and two-byte characters
FindChars == {Ch("a"), Ch("e_acute")}
FindTexts ==
  {str \in SeqsUpTo(FindChars, MaxFindBytes) : str_len(str) <= MaxFindBytes}

\* patterns, flags and the replacement of the searches: the empty pattern
\* and another; no flag, g, and a character that is no flag; group 1, group
\* 0 and a literal
FindPatterns == {<<>>, <<Ch("a")>>}
FindFlags == {<<>>, <<103>>, <<122>>}
Replacement == <<36, 49, 36, 48, 45>>

\* the number of capture groups of the pattern, group 0 included
GroupCounts == {1, 2}

\* byte ranges a..b inside lo..hi, on or off code-point boundaries (the
\* matcher works on bytes)
SubRanges(lo, hi) == {r \in (lo..hi) \X (lo..hi) : r[1] <= r[2]}

\* one match over n groups in a text of len bytes: group 0 participates,
\* every other group is absent or lies inside group 0
Captures(len, n) ==
  UNION {{[g \in 1..n |-> IF g = 1 THEN r ELSE inner[g - 1]] :
            inner \in [1..(n - 1) -> {<<>>} \cup SubRanges(r[1], r[2])]} :
         r \in SubRanges(0, len)}

\* the matches captures_iter can yield, in order: each starts at or after
\* the end of the one before and ends after it
RECURSIVE CaptureSeqs(_, _, _, _)
CaptureSeqs(len, n, prev_end, left) ==
  {<<>>} \cup
  (IF left = 0 THEN {}
   ELSE UNION {{<<c>> \o rest :
                  rest \in CaptureSeqs(len, n, c[1][2], left - 1)} :
               c \in {d \in Captures(len, n) :
                        d[1][1] >= prev_end /\ d[1][2] > prev_end}})

\* what the library can answer for a search: nothing is asked of it when
\* re_build returns before building
FindAnswers(text, pattern, flag_chars) ==
  IF pattern = <<>> \/ \E k \in DOMAIN flag_chars :
                        flag_chars[k] \notin ValidFlags
    THEN {[outcome |-> "Ok", span |-> <<>>, caps |-> <<>>]}
    ELSE {[outcome |-> "Ok", span |-> <<>>, caps |-> caps] :
            caps \in UNION {CaptureSeqs(str_len(text), n, -1, MaxMatches) :
                              n \in GroupCounts}}
           \cup {[outcome |-> "CompiledTooBig", span |-> <<>>, caps |-> <<>>]}
           \cup {[outcome |-> "Syntax", span |-> sp, caps |-> <<>>] :
                   sp \in ParserSpans(pattern)}

\* enum StrType
StrTypes == {"Ignore", "Str", "RawStr", "RawStrHash1", "RawStrHash2",
             "RawStrHash3", "RawStrHash4"}

\* every byte offset 0..=len, in order (what the non-boundary tests pass)
AllOffsets(str) == [m \in 1..(str_len(str) + 1) |-> m - 1]

\* batches for a text: short batches in any order, with repeats, possibly
\* holding offsets past the end, and the batch of every offset of the text
Batches(str) ==
  SeqsUpTo(0..(str_len(str) + 1), MaxBatch) \cup {AllOffsets(str)}

(***************************************************************************)
(* State machine.  Every operation is a function of its arguments and no   *)
(* state is kept between requests: a behaviour is one request, whose       *)
(* arguments the initial state draws and whose call one action performs.   *)
(***************************************************************************)
\* a request for utf16_index_bytes_slice(s, indices)
InitTranslator ==
  /\ pc = "call"
  /\ op = "utf16_index_bytes_slice"
  /\ s \in TranslatorTexts
  /\ indices \in Batches(s)
  /\ sep = "Ignore"
  /\ range = <<>> /\ span = <<>> /\ reg_exp = <<>> /\ flags = <<>>
  /\ rep = <<>> /\ matcher = <<>>
  /\ local = <<>>
  /\ ret = <<>>

\* a request for check_unescaped_quotes(s)
InitQuotes ==
  /\ pc = "call"
  /\ op = "check_unescaped_quotes"
  /\ s \in QuoteTexts
  /\ indices = <<>>
  /\ sep = "Str"
  /\ range = <<>> /\ span = <<>> /\ reg_exp = <<>> /\ flags = <<>>
  /\ rep = <<>> /\ matcher = <<>>
  /\ local = <<>>
  /\ ret = <<>>

\* a request for unescape_impl(s, sep)
InitUnescapeImpl ==
  /\ pc = "call"
  /\ op = "unescape_impl"
  /\ s \in UnescapeTexts
  /\ indices = <<>>
  /\ sep \in StrTypes
  /\ range = <<>> /\ span = <<>> /\ reg_exp = <<>> /\ flags = <<>>
  /\ rep = <<>> /\ matcher = <<>>
  /\ local = <<>>
  /\ ret = <<>>

\* a request for unescape_impl(s, StrType::Str)
InitUnescapeStd ==
  /\ pc = "call"
  /\ op = "unescape_impl"
  /\ s \in StdTexts
  /\ indices = <<>>
  /\ sep = "Str"
  /\ range = <<>> /\ span = <<>> /\ reg_exp = <<>> /\ flags = <<>>
  /\ rep = <<>> /\ matcher = <<>>
  /\ local = <<>>
  /\ ret = <<>>

\* a request for Span::from_offsets(s, range)
InitFromOffsets ==
  /\ pc = "call"
  /\ op = "Span::from_offsets"
  /\ s \in SpanTexts
  /\ range \in Ranges(s)
  /\ indices = <<>> /\ sep = "Ignore" /\ span = <<>> /\ reg_exp = <<>>
  /\ flags = <<>> /\ rep = <<>> /\ matcher = <<>>
  /\ local = <<>>
  /\ ret = <<>>

\* a request for convert_re_spans(s, span)
InitConvert ==
  /\ pc = "call"
  /\ op = "convert_re_spans"
  /\ s \in SpanTexts
  /\ span \in UpstreamSpans(s)
  /\ indices = <<>> /\ sep = "Ignore" /\ range = <<>> /\ reg_exp = <<>>
  /\ flags = <<>> /\ rep = <<>> /\ matcher = <<>>
  /\ local = <<>>
  /\ ret = <<>>

InitSpan == InitFromOffsets \/ InitConvert

\* a request for str_from_utf8_rep(s, start, end)
InitRep ==
  /\ pc = "call"
  /\ op = "str_from_utf8_rep"
  /\ s \in RepTexts
  /\ range \in Ranges(s)
  /\ indices = <<>> /\ sep = "Ignore" /\ span = <<>> /\ reg_exp = <<>>
  /\ flags = <<>> /\ rep = <<>> /\ matcher = <<>>
  /\ local = <<>>
  /\ ret = <<>>

\* a request for str_from_utf8_rep(text, start, end) whose loop is followed
\* iteration by iteration
InitRepLoop ==
  /\ pc = "call"
  /\ op = "str_from_utf8_rep"
  /\ s \in LoopTexts
  /\ range \in Ranges(s)
  /\ indices = <<>> /\ sep = "Ignore" /\ span = <<>> /\ reg_exp = <<>>
  /\ flags = <<>> /\ rep = <<>> /\ matcher = <<>>
  /\ local = <<>>
  /\ ret = <<>>

\* a request for re_build(reg_exp, flags)
InitBuild ==
  /\ pc = "call"
  /\ op = "re_build"
  /\ reg_exp \in PatternTexts
  /\ flags \in FlagTexts
  /\ matcher \in BuildAnswers(reg_exp)
  /\ s = <<>> /\ indices = <<>> /\ sep = "Ignore" /\ range = <<>>
  /\ span = <<>> /\ rep = <<>>
  /\ local = <<>>
  /\ ret = <<>>

\* a request for re_find_impl(s, reg_exp, flags)
InitFind ==
  /\ pc = "call"
  /\ op = "re_find_impl"
  /\ s \in FindTexts
  /\ reg_exp \in FindPatterns
  /\ flags \in FindFlags
  /\ matcher \in FindAnswers(s, reg_exp, flags)
  /\ indices = <<>> /\ sep = "Ignore" /\ range = <<>> /\ span = <<>>
  /\ rep = <<>>
  /\ local = <<>>
  /\ ret = <<>>

\* a request for re_replace_list_impl(s, reg_exp, rep, flags)
InitReplaceList ==
  /\ pc = "call"
  /\ op = "re_replace_list_impl"
  /\ s \in FindTexts
  /\ reg_exp \in FindPatterns
  /\ rep = Replacement
  /\ flags \in FindFlags
  /\ matcher \in FindAnswers(s, reg_exp, flags)
  /\ indices = <<>> /\ sep = "Ignore" /\ range = <<>> /\ span = <<>>
  /\ local = <<>>
  /\ ret = <<>>

InitMatch == InitFind \/ InitReplaceList

InitUnescape == InitQuotes \/ InitUnescapeImpl \/ InitUnescapeStd

Init ==
  \/ InitTranslator
  \/ InitQuotes
  \/ InitUnescapeImpl
  \/ InitUnescapeStd
  \/ InitFromOffsets
  \/ InitConvert
  \/ InitRep
  \/ InitBuild
  \/ InitFind
  \/ InitReplaceList

\* the call of utf16_index_bytes_slice(s, indices); no statement of it panics
Call_utf16_index_bytes_slice ==
  /\ pc = "call"
  /\ op = "utf16_index_bytes_slice"
  /\ ret' = [outcome |-> "returned",
             value |-> utf16_index_bytes_slice(s, indices)]
  /\ pc' = "done"
  /\ UNCHANGED <<args, local>>

\* the call of check_unescaped_quotes(s)
Call_check_unescaped_quotes ==
  /\ pc = "call"
  /\ op = "check_unescaped_quotes"
  /\ ret' = check_unescaped_quotes(s)
  /\ pc' = "done"
  /\ UNCHANGED <<args, local>>

\* the call of unescape_impl(s, sep)
Call_unescape_impl ==
  /\ pc = "call"
  /\ op = "unescape_impl"
  /\ ret' = unescape_impl(s, sep)
  /\ pc' = "done"
  /\ UNCHANGED <<args, local>>

\* a span pair as the result of a call
SpanResult(spans) ==
  IF spans.panic THEN [outcome |-> "panicked"]
  ELSE [outcome |-> "returned", span |-> spans.span,
        span_utf16 |-> spans.span_utf16]

\* the call of Span::from_offsets(s, range)
Call_Span_from_offsets ==
  /\ pc = "call"
  /\ op = "Span::from_offsets"
  /\ ret' = SpanResult(Span_from_offsets(s, range[1], range[2]))
  /\ pc' = "done"
  /\ UNCHANGED <<args, local>>

\* the call of convert_re_spans(s, span)
Call_convert_re_spans ==
  /\ pc = "call"
  /\ op = "convert_re_spans"
  /\ ret' = SpanResult(convert_re_spans(s, span))
  /\ pc' = "done"
  /\ UNCHANGED <<args, local>>

\* the call of str_from_utf8_rep(s, start, end)
Call_str_from_utf8_rep ==
  /\ pc = "call"
  /\ op = "str_from_utf8_rep"
  /\ ret' = LET res == str_from_utf8_rep(s, range[1], range[2]) IN
             IF res.panic THEN [outcome |-> "panicked"]
             ELSE [outcome |-> "returned", value |-> res.value,
                   iters |-> res.iters]
  /\ pc' = "done"
  /\ UNCHANGED <<args, local>>

NextRep == Call_str_from_utf8_rep

\* str_from_utf8_rep step by step: the statements before the loop.  A valid
\* slice is returned at once, any other enters the loop.
Rep_enter ==
  /\ pc = "call"
  /\ op = "str_from_utf8_rep"
  /\ IF range[1] > range[2] \/ range[2] > str_len(s)
       THEN /\ ret' = [outcome |-> "panicked"]
            /\ pc' = "done"
            /\ UNCHANGED local
       ELSE LET bslice == SubSeq(as_bytes(s), range[1] + 1, range[2]) IN
            IF from_utf8(bslice).ok
              THEN /\ ret' = [outcome |-> "returned",
                              value |-> chars_of(bslice), iters |-> 0]
                   /\ pc' = "done"
                   /\ UNCHANGED local
              ELSE /\ local' = [bslice |-> bslice, ret |-> <<>>, iters |-> 0]
                   /\ pc' = "loop"
                   /\ UNCHANGED ret
  /\ UNCHANGED args

\* one iteration of the loop of str_from_utf8_rep
Rep_iterate ==
  /\ pc = "loop"
  /\ LET after == rep_step(local.bslice, local.ret, local.iters) IN
     /\ local' = [bslice |-> after.bslice, ret |-> after.value,
                  iters |-> after.iters]
     /\ IF after.next = "loop"
          THEN pc' = "loop" /\ UNCHANGED ret
          ELSE /\ pc' = "done"
               /\ ret' = IF after.next = "panicked"
                           THEN [outcome |-> "panicked"]
                           ELSE [outcome |-> "returned",
                                 value |-> after.value,
                                 iters |-> after.iters]
  /\ UNCHANGED args

NextRepLoop == Rep_enter \/ Rep_iterate

\* the loop runs on as long as it has not exited
SpecRepLoop == InitRepLoop /\ [][NextRepLoop]_vars /\ WF_vars(NextRepLoop)

SpecRep == InitRep /\ [][NextRep]_vars

\* the call of re_build(reg_exp, flags)
Call_re_build ==
  /\ pc = "call"
  /\ op = "re_build"
  /\ ret' = re_build(reg_exp, flags, matcher)
  /\ pc' = "done"
  /\ UNCHANGED <<args, local>>

\* the call of re_find_impl(s, reg_exp, flags)
Call_re_find_impl ==
  /\ pc = "call"
  /\ op = "re_find_impl"
  /\ ret' = re_find_impl(s, reg_exp, flags, matcher)
  /\ pc' = "done"
  /\ UNCHANGED <<args, local>>

\* the call of re_replace_list_impl(s, reg_exp, rep, flags)
Call_re_replace_list_impl ==
  /\ pc = "call"
  /\ op = "re_replace_list_impl"
  /\ ret' = re_replace_list_impl(s, reg_exp, rep, flags, matcher)
  /\ pc' = "done"
  /\ UNCHANGED <<args, local>>

NextBuild == Call_re_build

SpecBuild == InitBuild /\ [][NextBuild]_vars

NextMatch == Call_re_find_impl \/ Call_re_replace_list_impl

SpecMatch == InitMatch /\ [][NextMatch]_vars

NextTranslator == Call_utf16_index_bytes_slice

NextSpan == Call_Span_from_offsets \/ Call_convert_re_spans

SpecSpan == InitSpan /\ [][NextSpan]_vars

SpecTranslator == InitTranslator /\ [][NextTranslator]_vars

NextUnescape == Call_check_unescaped_quotes \/ Call_unescape_impl

SpecUnescape == InitUnescape /\ [][NextUnescape]_vars

Next ==
  \/ Call_utf16_index_bytes_slice
  \/ Call_check_unescaped_quotes
  \/ Call_unescape_impl
  \/ Call_Span_from_offsets
  \/ Call_convert_re_spans
  \/ Call_str_from_utf8_rep
  \/ Rep_enter
  \/ Rep_iterate
  \/ Call_re_build
  \/ Call_re_find_impl
  \/ Call_re_replace_list_impl

Spec == Init /\ [][Next]_vars

(***************************************************************************)
(* Vocabulary of the properties                                            *)
(***************************************************************************)
SliceDone == pc = "done" /\ op = "utf16_index_bytes_slice"

\* the offsets of the batch
Queried == {indices[i] : i \in DOMAIN indices}

\* every offset of the batch lies in [0, len(s)]
InRange == \A o \in Queried : o <= str_len(s)

\* the list v holds a pair for byte offset o
HasPair(v, o) == \E p \in DOMAIN v : v[p][1] = o

\* the UTF-16 values the list v reports for byte offset o
ValuesAt(v, o) == {v[p][2] : p \in {q \in DOMAIN v : v[q][1] = o}}

\* the code point (1-based) of str that contains byte o, for o < len
containing_char(str, o) ==
  CHOOSE k \in 1..Len(str) :
    byte_start(str, k) <= o /\ o < byte_start(str, k) + len_utf8(str[k])

\* UTF-16 offsets of the start and of the end of the code point holding byte o
cp_start16(str, o) == sum_len_utf16(str, containing_char(str, o) - 1)
cp_end16(str, o) == sum_len_utf16(str, containing_char(str, o))

\* the offsets of the batch that fall strictly inside a code point
NonBoundary == {o \in Queried : o <= str_len(s) /\ ~is_char_boundary(s, o)}

(***************************************************************************)
(* C1..C7: utf16_index_bytes_slice                                         *)
(***************************************************************************)
\* C1: in a batch of in-range offsets, every offset that is a code-point
\* boundary is mapped to the UTF-16 length of s[..o], the value of
\* utf16_index_bytes(s, o), whatever else is in the batch.
C1_BoundaryExact ==
  (SliceDone /\ InRange) =>
    \A o \in Queried :
      is_char_boundary(s, o) =>
        /\ HasPair(ret.value, o)
        /\ ValuesAt(ret.value, o) = {utf16_index_bytes(s, o).value}

\* a batch that mixes an offset inside a code point with a later boundary that
\* lies past a surrogate pair
C1_Witness ==
  /\ SliceDone /\ InRange
  /\ \E q \in NonBoundary :
       \E o \in Queried :
         /\ o > q /\ is_char_boundary(s, o) /\ o < str_len(s)
         /\ ValuesAt(ret.value, o) = {utf16_index_bytes(s, o).value}
         /\ utf16_index_bytes(s, o).value >= 2

\* C2 as stated: every queried offset that is not a boundary is mapped to the
\* UTF-16 offset of the START of the code point that contains it.
C2_NonBoundaryStart ==
  (SliceDone /\ InRange) =>
    \A o \in NonBoundary : ValuesAt(ret.value, o) = {cp_start16(s, o)}

\* C2 amended: a non-boundary offset queried on its own is mapped to the
\* UTF-16 offset of the END of the code point that contains it; in a larger
\* batch it is mapped to that value or to the UTF-16 offset of the start of
\* that code point.
C2_NonBoundaryEndWhenAlone ==
  (SliceDone /\ InRange) =>
    \A o \in NonBoundary :
      /\ HasPair(ret.value, o)
      /\ ValuesAt(ret.value, o) \in {{cp_start16(s, o)}, {cp_end16(s, o)}}
      /\ (Queried = {o} => ValuesAt(ret.value, o) = {cp_end16(s, o)})

\* a lone query inside a surrogate-pair code point that is followed by more text
C2_Witness ==
  /\ SliceDone
  /\ \E o \in NonBoundary :
       /\ Queried = {o}
       /\ cp_end16(s, o) = cp_start16(s, o) + 2
       /\ cp_end16(s, o) < sum_len_utf16(s, Len(s))
       /\ ValuesAt(ret.value, o) = {cp_end16(s, o)}

\* C3: when every offset 0..=len(s) is queried in one batch, each offset
\* strictly inside a code point is mapped to the UTF-16 offset of the first
\* boundary after it (the end of its code point).
C3_FullBatchNextBoundary ==
  (SliceDone /\ indices = AllOffsets(s)) =>
    \A o \in NonBoundary : ValuesAt(ret.value, o) = {cp_end16(s, o)}

\* C4: the value reported for an offset in a batch is the value reported
\* when that offset is queried alone.
C4_BatchEqualsSingle ==
  (SliceDone /\ InRange) =>
    \A o \in Queried :
      ValuesAt(ret.value, o) = ValuesAt(utf16_index_bytes_slice(s, <<o>>), o)

\* the elements of a finite set of numbers in ascending order
RECURSIVE Ascending(_)
Ascending(S) ==
  IF S = {} THEN <<>>
  ELSE LET least == CHOOSE i \in S : \A j \in S : i <= j
       IN <<least>> \o Ascending(S \ {least})

\* C5: the output depends only on s and on the set of offsets: the batch,
\* in whatever order and with whatever repeats it was given, yields the list
\* that the ascending repeat-free batch of the same offsets yields, and so
\* does the batch reversed.
C5_OrderAndDuplicatesIrrelevant ==
  SliceDone =>
    LET n == Len(indices)
        reversed == [i \in 1..n |-> indices[n + 1 - i]]
    IN /\ ret.value = utf16_index_bytes_slice(s, Ascending(Queried))
       /\ utf16_index_bytes_slice(s, reversed) = ret.value

\* a batch given in descending order with two distinct offsets
C5_Witness ==
  /\ SliceDone
  /\ Len(indices) = 2
  /\ indices[1] > indices[2]
  /\ Len(ret.value) = 2

\* C6: a batch holding an offset greater than len(s) makes the call panic.
C6_OutOfRangePanics ==
  (SliceDone /\ ~InRange) => ret.outcome = "panicked"

\* C7: for an in-range batch the list holds exactly one pair per distinct
\* offset, in strictly ascending byte-offset order, and find_idx finds
\* every offset of the batch.
C7_OnePairPerOffsetSorted ==
  (SliceDone /\ InRange) =>
    /\ Len(ret.value) = Cardinality(Queried)
    /\ {ret.value[p][1] : p \in DOMAIN ret.value} = Queried
    /\ \A p \in 1..(Len(ret.value) - 1) : ret.value[p][1] < ret.value[p + 1][1]
    /\ \A o \in Queried : ~find_idx(ret.value, o).panic

\* a batch that repeats an offset lying inside a code point, looked up by key
C7_Witness ==
  /\ SliceDone /\ InRange
  /\ Len(indices) = 2
  /\ Cardinality(Queried) = 1
  /\ NonBoundary = Queried
  /\ Len(ret.value) = 1
  /\ \A o \in Queried : ~find_idx(ret.value, o).panic

(***************************************************************************)
(* C8..C10: check_unescaped_quotes and unescape_impl                       *)
(***************************************************************************)
QuotesDone == pc = "done" /\ op = "check_unescaped_quotes"
UnescapeDone == pc = "done" /\ op = "unescape_impl"

\* the number of consecutive backslash bytes that end just before byte i
RECURSIVE backslashes_before(_, _)
backslashes_before(bytes, i) ==
  IF i >= 1 /\ bytes[i] = 92 THEN 1 + backslashes_before(bytes, i - 1) ELSE 0

\* byte offsets of the quotes preceded by an even number of backslashes
UnescapedQuotes(str) ==
  {i \in 0..(str_len(str) - 1) :
     /\ as_bytes(str)[i + 1] = 34
     /\ backslashes_before(as_bytes(str), i) % 2 = 0}

\* the least element of a non-empty set of numbers
Least(S) == CHOOSE i \in S : \A j \in S : i <= j

\* C8: check_unescaped_quotes returns an error exactly when some quote is
\* preceded by an even number of consecutive backslashes, the error span
\* being [i, i + 1) for the leftmost such quote, also when a multi-byte
\* character precedes the quote or its backslashes.
C8_ErrorIffUnescapedQuote ==
  QuotesDone =>
    /\ (ret.outcome = "Err") <=> (UnescapedQuotes(s) # {})
    /\ ret.outcome = "Err" =>
         /\ ret.span.start.offset = Least(UnescapedQuotes(s))
         /\ ret.span.end.offset = Least(UnescapedQuotes(s)) + 1

\* the number of hashes of a raw literal kind
Hashes(type_) ==
  CASE type_ = "RawStr" -> 0
    [] type_ = "RawStrHash1" -> 1
    [] type_ = "RawStrHash2" -> 2
    [] type_ = "RawStrHash3" -> 3
    [] type_ = "RawStrHash4" -> 4

RawTypes == StrTypes \ {"Ignore", "Str"}

\* byte offsets at which a quote followed by k hashes occurs in str
DelimiterAt(str, k) ==
  {i \in 0..(str_len(str) - 1) :
     /\ as_bytes(str)[i + 1] = 34
     /\ i + k < str_len(str)
     /\ \A h \in 1..k : as_bytes(str)[i + h + 1] = 35}

\* C9: for a raw literal kind with k hashes, a text holding the closing
\* delimiter (a quote followed by k hashes) gives an error whose byte span
\* starts at the first occurrence i and ends at i + k + 1; any other text is
\* returned unchanged, backslashes included.
C9_RawDelimiter ==
  (UnescapeDone /\ sep \in RawTypes) =>
    LET occ == DelimiterAt(s, Hashes(sep)) IN
    IF occ # {}
      THEN /\ ret.outcome = "Err"
           /\ ret.span.start.offset = Least(occ)
           /\ ret.span.end.offset = Least(occ) + Hashes(sep) + 1
      ELSE ret = [outcome |-> "Ok", value |-> s]

\* a hashed raw kind whose delimiter occurs twice, the first time past the
\* start of the text
C9_Witness ==
  /\ UnescapeDone
  /\ sep = "RawStrHash1"
  /\ Cardinality(DelimiterAt(s, 1)) = 2
  /\ Least(DelimiterAt(s, 1)) >= 1
  /\ ret.outcome = "Err"
  /\ ret.span.end.offset = ret.span.start.offset + 2

\* C10: a standard-string text without a backslash is returned unchanged
\* and without error, quotes or not.
C10_StrFastPath ==
  (UnescapeDone /\ sep = "Str" /\ ~(\E k \in DOMAIN s : s[k] = 92)) =>
    ret = [outcome |-> "Ok", value |-> s]

\* a standard-string text with a bare quote and no backslash
C10_Witness ==
  /\ UnescapeDone
  /\ sep = "Str"
  /\ ~(\E k \in DOMAIN s : s[k] = 92)
  /\ \E k \in DOMAIN s : s[k] = 34
  /\ ret = [outcome |-> "Ok", value |-> s]

\* the calls the decoder makes on the text of the request
decoder_calls == unescape_str(s, 1)

\* the positions of the calls that report a fault
decoder_faults == {k \in DOMAIN decoder_calls : decoder_calls[k][3][1] = "Err"}

\* a finished unescape_impl request on a standard string with a backslash
StdWithBackslash ==
  UnescapeDone /\ sep = "Str" /\ (\E k \in DOMAIN s : s[k] = 92)

\* C11: for a standard string holding a backslash, unescape_impl answers
\* the error of check_unescaped_quotes when that check fails; otherwise the
\* error of the first decoder call that reports a fault, on the byte range
\* of that call; otherwise the text of all decoded characters.  An error
\* result carries no text.
C11_OneOutcomeInOrder ==
  StdWithBackslash =>
    LET quotes == check_unescaped_quotes(s) IN
    IF quotes.outcome # "Ok" THEN ret = quotes
    ELSE IF decoder_faults = {}
      THEN ret = [outcome |-> "Ok",
                  value |-> [k \in DOMAIN decoder_calls |->
                               decoder_calls[k][3][2]]]
    ELSE
      LET first == decoder_calls[Least(decoder_faults)] IN
      /\ ret.outcome = "Err"
      /\ "value" \notin DOMAIN ret
      /\ ret.message = escape_error_message(first[3][2])
      /\ ret.span.start.offset = first[1]
      /\ ret.span.end.offset = first[2]

\* the first of two decoder faults is the one reported, and characters were
\* decoded before and after it
C11_Witness ==
  /\ StdWithBackslash
  /\ check_unescaped_quotes(s).outcome = "Ok"
  /\ Cardinality(decoder_faults) >= 2
  /\ \E i, j \in DOMAIN decoder_calls :
        /\ i < Least(decoder_faults) /\ Least(decoder_faults) < j
        /\ decoder_calls[i][3][1] = "Ok" /\ decoder_calls[j][3][1] = "Ok"
  /\ ret.outcome = "Err"
  /\ ret.span.start.offset = decoder_calls[Least(decoder_faults)][1]
\* a finished Span::from_offsets request
FromOffsetsDone == pc = "done" /\ op = "Span::from_offsets"

\* the range of the request is non-empty, inside the text and on code-point
\* boundaries
RangeOnBoundaries ==
  /\ range[1] < range[2] /\ range[2] <= str_len(s)
  /\ is_char_boundary(s, range[1]) /\ is_char_boundary(s, range[2])

\* the number of line feeds in s[..b], b a boundary
newlines_to(str, b) ==
  Cardinality({k \in 1..chars_before(str, b) : str[k] = 10})

\* the UTF-16 length of s[..b], b a boundary
utf16_len_to(str, b) == sum_len_utf16(str, chars_before(str, b))

\* C12: for a range [a, b) with a < b <= len(s) on code-point boundaries,
\* Span::from_offsets returns two spans whose start line is 1 + the line
\* feeds of s[..a] and whose end line is 2 + the line feeds of s[..b], in
\* both spaces; the offsets are a and b in byte space and the UTF-16
\* lengths of s[..a] and s[..b] in UTF-16 space.
C12_FromOffsetsLinesAndOffsets ==
  (FromOffsetsDone /\ RangeOnBoundaries) =>
    /\ ret.outcome = "returned"
    /\ ret.span.start.line = 1 + newlines_to(s, range[1])
    /\ ret.span.end.line = 2 + newlines_to(s, range[2])
    /\ ret.span_utf16.start.line = ret.span.start.line
    /\ ret.span_utf16.end.line = ret.span.end.line
    /\ ret.span.start.offset = range[1]
    /\ ret.span.end.offset = range[2]
    /\ ret.span_utf16.start.offset = utf16_len_to(s, range[1])
    /\ ret.span_utf16.end.offset = utf16_len_to(s, range[2])

\* a range that starts after a line feed and a four-byte character: lines
\* above 1 and UTF-16 offsets that differ from the byte offsets
C12_Witness ==
  /\ FromOffsetsDone /\ RangeOnBoundaries
  /\ ret.outcome = "returned"
  /\ ret.span.start.line >= 2
  /\ ret.span_utf16.start.offset < ret.span.start.offset
  /\ ret.span_utf16.end.offset < ret.span.end.offset
\* the number of line feeds in s[a..b], a <= b boundaries
newlines_between(str, a, b) ==
  Cardinality({k \in (chars_before(str, a) + 1)..chars_before(str, b) :
                 str[k] = 10})

\* C20 as stated: the end line of every span pair built by
\* Span::from_offsets is one more than the start line, in both spaces
C20_EndLineIsStartLinePlusOne ==
  (FromOffsetsDone /\ ret.outcome = "returned") =>
    /\ ret.span.end.line = ret.span.start.line + 1
    /\ ret.span_utf16.end.line = ret.span_utf16.start.line + 1

\* C20, amended: the end line of every span pair built by
\* Span::from_offsets from [a, b) is the start line plus one plus the number
\* of line feeds in s[a..b], in both spaces; it is one more than the start
\* line exactly when s[a..b] holds no line feed
C20_EndLineCountsRangeNewlines ==
  (FromOffsetsDone /\ ret.outcome = "returned") =>
    /\ ret.span.end.line =
         ret.span.start.line + 1 + newlines_between(s, range[1], range[2])
    /\ ret.span_utf16.end.line =
         ret.span_utf16.start.line + 1
           + newlines_between(s, range[1], range[2])
    /\ (ret.span.end.line = ret.span.start.line + 1)
         <=> (newlines_between(s, range[1], range[2]) = 0)

\* a range that holds two line feeds: the end line is three past the start
C20_Witness ==
  /\ FromOffsetsDone /\ ret.outcome = "returned"
  /\ newlines_between(s, range[1], range[2]) = 2
  /\ ret.span.end.line = ret.span.start.line + 3
  /\ ret.span_utf16.end.line = ret.span_utf16.start.line + 3
\* a finished convert_re_spans request
ConvertDone == pc = "done" /\ op = "convert_re_spans"

\* C13: a span pair of Span::from_offsets, and a span pair of
\* convert_re_spans for an upstream span with start.offset <= end.offset,
\* has start.offset <= end.offset in byte space and in UTF-16 space;
\* Span::from_offsets panics on a range a >= b.
C13_OffsetsOrdered ==
  /\ (FromOffsetsDone /\ range[1] >= range[2]) => ret.outcome = "panicked"
  /\ ((FromOffsetsDone \/ (ConvertDone
                             /\ span.start.offset <= span.end.offset))
       /\ ret.outcome = "returned") =>
        /\ ret.span.start.offset <= ret.span.end.offset
        /\ ret.span_utf16.start.offset <= ret.span_utf16.end.offset

\* an upstream span over a four-byte character: the byte offsets are 4 apart
\* and the UTF-16 offsets 2
C13_Witness ==
  /\ ConvertDone /\ ret.outcome = "returned"
  /\ ret.span.end.offset >= ret.span.start.offset + 4
  /\ ret.span_utf16.end.offset = ret.span_utf16.start.offset + 2
\* the line numbered l of str as the pattern parser counts lines: the
\* characters between line feed l - 1 and line feed l (or the end)
upstream_line(str, l) ==
  LET feeds == {k \in DOMAIN str : str[k] = 10}
      before(k) == Cardinality({j \in feeds : j < k})
  IN [m \in 1..Cardinality({k \in DOMAIN str \ feeds : before(k) = l - 1})
        |-> str[(CHOOSE k \in DOMAIN str \ feeds : before(k) = l - 1
                   /\ Cardinality({j \in DOMAIN str \ feeds :
                         before(j) = l - 1 /\ j < k}) = m - 1)]]

\* an upstream position that names a place of str: a code-point boundary
\* in [0, len], a line of str and a column from 1
NamesAPlace(str, pos) ==
  /\ pos.offset <= str_len(str) /\ is_char_boundary(str, pos.offset)
  /\ pos.line \in 1..(1 + Cardinality({k \in DOMAIN str : str[k] = 10}))
  /\ pos.column >= 1

\* the UTF-16 position the claim C17 describes for an upstream position
utf16_position(str, pos) ==
  Position_new(utf16_len_to(str, pos.offset), pos.line,
               1 + utf16_index_chars(upstream_line(str, pos.line),
                                     pos.column - 1))

\* C17: for an upstream span, convert_re_spans returns the upstream values
\* as the byte-space span and a UTF-16-space span with the same lines,
\* whose offsets are the UTF-16 lengths of s[..offset] and whose columns
\* are 1 + the UTF-16 units of the first column - 1 characters of the line.
C17_ConvertedValues ==
  (ConvertDone /\ NamesAPlace(s, span.start) /\ NamesAPlace(s, span.end)) =>
    /\ ret.outcome = "returned"
    /\ ret.span = span
    /\ ret.span_utf16.start = utf16_position(s, span.start)
    /\ ret.span_utf16.end = utf16_position(s, span.end)

\* C19: convert_re_spans returns for every upstream span whose positions
\* are consistent with s, the end of a text that ends with a line feed
\* included.
C19_ConsistentNeverAborts ==
  (ConvertDone /\ span.start \in ConsistentPositions(s)
               /\ span.end \in ConsistentPositions(s)) =>
    ret.outcome = "returned"
\* a finished str_from_utf8_rep request
RepDone == pc = "done" /\ op = "str_from_utf8_rep"

\* the range of the request lies inside the text
RangeInText == range[1] <= range[2] /\ range[2] <= str_len(s)

\* the code point holding byte o lies wholly inside [a, b)
whole_in_range(str, o, a, b) ==
  LET k == containing_char(str, o) IN
  a <= byte_start(str, k) /\ byte_start(str, k + 1) <= b

\* what C14 describes for the bytes o..b-1 of the range [a, b): a code
\* point wholly inside the range once, where it starts; any other byte as
\* its hex token
RECURSIVE replaced_from(_, _, _, _)
replaced_from(str, o, a, b) ==
  IF o >= b THEN <<>>
  ELSE
    (IF whole_in_range(str, o, a, b)
       THEN IF is_char_boundary(str, o)
              THEN <<str[containing_char(str, o)]>> ELSE <<>>
       ELSE LET byte == as_bytes(str)[o + 1] IN
            <<92, 120>> \o
            <<(<<48, 49, 50, 51, 52, 53, 54, 55, 56, 57,
                 97, 98, 99, 100, 101, 102>>)[(byte \div 16) + 1],
              (<<48, 49, 50, 51, 52, 53, 54, 55, 56, 57,
                 97, 98, 99, 100, 101, 102>>)[(byte % 16) + 1]>>)
    \o replaced_from(str, o + 1, a, b)

\* C14: for a range 0 <= start <= end <= len(text), on code-point
\* boundaries or not, str_from_utf8_rep returns, without panicking, the
\* bytes of the range in order, every code point wholly inside the range
\* verbatim and every byte of a code point cut by the range as backslash,
\* x and two lower-case hex digits; a boundary-aligned range gives the slice.
C14_ReplacesCutCodePoints ==
  (RepDone /\ RangeInText) =>
    /\ ret.outcome = "returned"
    /\ ret.value = replaced_from(s, range[1], range[1], range[2])
    /\ (is_char_boundary(s, range[1]) /\ is_char_boundary(s, range[2])) =>
         ret.value = SubSeq(s, chars_before(s, range[1]) + 1,
                            chars_before(s, range[2]))

\* a range cut at both ends with a whole code point in between: tokens,
\* then the code point, then tokens
C14_Witness ==
  /\ RepDone /\ RangeInText /\ ret.outcome = "returned"
  /\ ~is_char_boundary(s, range[1]) /\ ~is_char_boundary(s, range[2])
  /\ \E o \in range[1]..(range[2] - 1) :
        whole_in_range(s, o, range[1], range[2])
  /\ ret.value[1] = 92 /\ ret.value[Len(ret.value) - 3] = 92
  /\ \E k \in DOMAIN ret.value : ret.value[k] > 127
(***************************************************************************)
(* C15, C16, C18: matching                                                 *)
(***************************************************************************)
\* finished requests
BuildDone == pc = "done" /\ op = "re_build"
FindDone == pc = "done" /\ op = "re_find_impl"
ReplaceListDone == pc = "done" /\ op = "re_replace_list_impl"

\* the flags hold a character outside g, i, m, s, U, u, x
BadFlag == \E k \in DOMAIN flags : flags[k] \notin ValidFlags

\* the flags hold g
GlobalFlag == \E k \in DOMAIN flags : flags[k] = 103

\* the capture records of a find result
Records ==
  {ret.matches[i][j] : i \in DOMAIN ret.matches, j \in 1..Len(ret.matches[1])}

\* the byte offsets a find result reports, as an ascending batch
ReportedOffsets ==
  Ascending(UNION {{c.start[k] : k \in DOMAIN c.start}
                     \cup {c.end[k] : k \in DOMAIN c.end} : c \in Records})

\* the translator maps byte offset o of the batch to v
Translated(batch, o, v) ==
  \E k \in DOMAIN utf16_index_bytes_slice(s, batch) :
    utf16_index_bytes_slice(s, batch)[k] = <<o, v>>

\* C15: in a match list returned by re_find_impl, a capture record that
\* does not participate has no content, start, end, start_utf16 and
\* end_utf16; one that participates has all five, start_utf16 and
\* end_utf16 being the values the translator gives for start and end.
C15_ParticipationAndFields ==
  (FindDone /\ ret.outcome = "Ok" /\ ret.matches # <<>>) =>
    \A c \in Records :
      IF c.is_participating
        THEN /\ Len(c.content) = 1 /\ Len(c.start) = 1 /\ Len(c.end) = 1
             /\ Len(c.start_utf16) = 1 /\ Len(c.end_utf16) = 1
             /\ Translated(ReportedOffsets, c.start[1], c.start_utf16[1])
             /\ Translated(ReportedOffsets, c.end[1], c.end_utf16[1])
        ELSE /\ c.content = <<>> /\ c.start = <<>> /\ c.end = <<>>
             /\ c.start_utf16 = <<>> /\ c.end_utf16 = <<>>

\* a match list with a group that did not participate and a group 0 that
\* starts inside a two-byte character and ends after it
C15_Witness ==
  /\ FindDone /\ ret.outcome = "Ok" /\ ret.matches # <<>>
  /\ \E c \in Records : ~c.is_participating
  /\ \E c \in Records :
        /\ c.is_participating
        /\ ~is_char_boundary(s, c.start[1])
        /\ c.start_utf16[1] < c.end_utf16[1]

\* dest after expanding the first k matches the matcher yields
RECURSIVE expansions_of_first(_)
expansions_of_first(k) ==
  IF k = 0 THEN <<>>
  ELSE expansions_of_first(k - 1) \o expand(s, matcher.caps[k], rep)

\* the number of matches a request consumes: all with g, else at most one
Consumed ==
  IF GlobalFlag \/ Len(matcher.caps) = 0 THEN Len(matcher.caps) ELSE 1

\* C16: re_find_impl and re_replace_list_impl consume at most the first
\* match of the matcher without the g flag and every match, in the
\* matcher's order, with it: the find result holds those matches and the
\* replace-list output is their expansions, concatenated in order.
C16_LimitFollowsGlobalFlag ==
  /\ (FindDone /\ ret.outcome = "Ok" /\ reg_exp # <<>>) =>
       /\ Len(ret.matches) = Consumed
       /\ \A i \in DOMAIN ret.matches :
            /\ ret.matches[i][1].start = <<matcher.caps[i][1][1]>>
            /\ ret.matches[i][1].end = <<matcher.caps[i][1][2]>>
  /\ (ReplaceListDone /\ ret.outcome = "Ok" /\ reg_exp # <<>>) =>
       ret.result = from_utf8_lossy(expansions_of_first(Consumed))

\* a replace-list request with g on two matches with different expansions:
\* the output holds both
C16_Witness ==
  /\ ReplaceListDone /\ ret.outcome = "Ok" /\ GlobalFlag
  /\ Len(matcher.caps) = 2
  /\ expansions_of_first(1) # <<>>
  /\ expansions_of_first(2) # expansions_of_first(1)
  /\ ret.result = from_utf8_lossy(expansions_of_first(2))
  /\ ret.result # from_utf8_lossy(expansions_of_first(1))

\* C18 as stated: for every pattern, the empty one included, re_build
\* panics when the flags hold a character that is no flag.
C18_BadFlagAlwaysPanics ==
  (BuildDone /\ BadFlag) => ret.outcome = "panicked"

\* C18, amended: for every pattern but the empty one re_build panics when
\* the flags hold a character that is no flag, whatever the parser would
\* say of the pattern; for the empty pattern it returns the short-circuit
\* value without reading the flags.
C18_BadFlagPanicsUnlessEmptyPattern ==
  /\ (BuildDone /\ BadFlag /\ reg_exp # <<>>) => ret.outcome = "panicked"
  /\ (BuildDone /\ reg_exp = <<>>) => ret = [outcome |-> "Ok", state |-> <<>>]

\* a pattern the parser would reject, with a character that is no flag
\* after a flag: the request panics and no diagnostic is returned
C18_Witness ==
  /\ BuildDone /\ reg_exp # <<>> /\ matcher.outcome = "Syntax"
  /\ Len(flags) = 2 /\ flags[1] \in ValidFlags /\ flags[2] \notin ValidFlags
  /\ ret.outcome = "panicked"
\* C21: in the result of re_find_impl the record at position j of the i-th
\* match list has match_num = i and group_num = j, both from 0; every match
\* list has one record per capture group of the pattern, participating or
\* not; entire_match is true exactly for the participating records of
\* group 0.
C21_RecordNumbering ==
  (FindDone /\ ret.outcome = "Ok") =>
    \A i \in DOMAIN ret.matches :
      /\ Len(ret.matches[i]) = Len(matcher.caps[i])
      /\ \A j \in DOMAIN ret.matches[i] :
           LET c == ret.matches[i][j] IN
           /\ c.match_num = i - 1
           /\ c.group_num = j - 1
           /\ c.is_participating <=> (matcher.caps[i][j] # <<>>)
           /\ c.entire_match <=> (c.is_participating /\ c.group_num = 0)

\* two match lists of two records each, one of them for a group that did
\* not participate
C21_Witness ==
  /\ FindDone /\ ret.outcome = "Ok"
  /\ Len(ret.matches) = 2 /\ Len(ret.matches[2]) = 2
  /\ ret.matches[2][2].match_num = 1 /\ ret.matches[2][2].group_num = 1
  /\ ~ret.matches[2][2].is_participating
  /\ ret.matches[1][2].is_participating
  /\ ret.matches[2][1].entire_match /\ ~ret.matches[1][2].entire_match
\* the byte offset at which the line of byte offset o starts: just after
\* the last line feed of s[..o], 0 when there is none (o a boundary)
line_start(str, o) ==
  LET feeds == {k \in 1..chars_before(str, o) : str[k] = 10} IN
  IF feeds = {} THEN 0
  ELSE byte_start(str, (CHOOSE i \in feeds : \A j \in feeds : j <= i) + 1)

\* the UTF-16 length of s[a..b], a <= b boundaries
utf16_len_between(str, a, b) ==
  LET units(k) == IF str[k] < 65536 THEN 1 ELSE 2
      f[k \in chars_before(str, a)..chars_before(str, b)] ==
        IF k = chars_before(str, a) THEN 0 ELSE f[k - 1] + units(k)
  IN f[chars_before(str, b)]

\* what C22 says of the positions Position::from_offset gave for offset o
ColumnsOf(o, pos_u8, pos_u16) ==
  /\ pos_u8.column = o - line_start(s, o)
  /\ pos_u16.column = utf16_len_between(s, line_start(s, o), o)
  /\ pos_u8.offset - pos_u8.column = line_start(s, o)
  /\ pos_u16.offset - pos_u16.column = utf16_len_to(s, line_start(s, o))
  /\ (o = line_start(s, o)) => (pos_u8.column = 0 /\ pos_u16.column = 0)

\* C22: for a boundary offset o <= len(s), Position::from_offset returns
\* the byte column o - L, L being the offset just after the last line feed
\* of s[..o] (0 without one), and the UTF-16 column that is the UTF-16
\* length of s[L..o]; in each space offset - column is the offset of the
\* start of the line.  Both positions of a Span::from_offsets result are
\* built this way.
C22_ColumnsFromLineStart ==
  (FromOffsetsDone /\ ret.outcome = "returned") =>
    /\ ColumnsOf(range[1], ret.span.start, ret.span_utf16.start)
    /\ ColumnsOf(range[2], ret.span.end, ret.span_utf16.end)

\* an end position on a second line, after a four-byte character of that
\* line: byte column 4 or more, UTF-16 column smaller
C22_Witness ==
  /\ FromOffsetsDone /\ ret.outcome = "returned"
  /\ line_start(s, range[2]) > 0
  /\ ret.span.end.column >= 4
  /\ ret.span_utf16.end.column = ret.span.end.column - 2
  /\ ret.span.start.column = 0
\* C23: in a batch of offsets in [0, len(s)], every pair the translator
\* returns for an offset that is not a code-point boundary carries the
\* UTF-16 offset of the start or of the end of the code point that holds
\* the offset, never a value of another code point.
C23_NonBoundaryStartOrEnd ==
  (SliceDone /\ InRange) =>
    \A p \in DOMAIN ret.value :
      LET o == ret.value[p][1]
          v == ret.value[p][2]
      IN ~is_char_boundary(s, o) =>
           /\ v >= cp_start16(s, o) /\ v <= cp_end16(s, o)
           /\ v = cp_start16(s, o) \/ v = cp_end16(s, o)

\* a batch of two offsets inside two code points: the first is mapped to
\* the end of its code point, the second to the start of its own
C23_Witness ==
  /\ SliceDone /\ InRange /\ Len(ret.value) = 2
  /\ ~is_char_boundary(s, ret.value[1][1])
  /\ ~is_char_boundary(s, ret.value[2][1])
  /\ containing_char(s, ret.value[1][1]) # containing_char(s, ret.value[2][1])
  /\ ret.value[1][2] = cp_end16(s, ret.value[1][1])
  /\ ret.value[2][2] = cp_start16(s, ret.value[2][1])
\* the UTF-16 length of the text of the request
utf16_len == utf16_len_to(s, str_len(s))

\* C24: for a batch of in-range offsets the UTF-16 values of the returned
\* list do not decrease as the byte offsets increase and none exceeds the
\* UTF-16 length of s; hence the value of a larger offset (a capture's end)
\* is never below the value of a smaller one (its start).
C24_ValuesNonDecreasing ==
  (SliceDone /\ InRange) =>
    /\ \A p, q \in DOMAIN ret.value :
         ret.value[p][1] <= ret.value[q][1] =>
           ret.value[p][2] <= ret.value[q][2]
    /\ \A p \in DOMAIN ret.value : ret.value[p][2] <= utf16_len

\* every offset of a text with a four-byte character: values that repeat
\* inside the character, a step of two, and the UTF-16 length at the end
C24_Witness ==
  /\ SliceDone /\ InRange /\ Len(ret.value) >= 4
  /\ \E p \in 1..(Len(ret.value) - 1) :
        ret.value[p + 1][2] = ret.value[p][2]
  /\ \E p \in 1..(Len(ret.value) - 1) :
        ret.value[p + 1][2] = ret.value[p][2] + 2
  /\ ret.value[Len(ret.value)][2] = utf16_len
  /\ utf16_len < str_len(s)
\* an iteration that does not exit leaves a shorter slice
IterationShrinks ==
  (pc = "loop" /\ pc' = "loop") =>
    Len(local'.bslice) < Len(local.bslice) /\ local'.iters = local.iters + 1

\* the iterations done and the bytes left never exceed the bytes of the
\* range, and a finished request has made at most one iteration more
IterationBound ==
  (op = "str_from_utf8_rep" /\ RangeInText) =>
    /\ pc = "loop" =>
         local.iters + Len(local.bslice) <= range[2] - range[1]
    /\ pc = "done" =>
         /\ ret.outcome = "returned"
         /\ ret.iters <= (range[2] - range[1]) + 1

\* C25: for a valid UTF-8 text and an in-range byte range the loop of
\* str_from_utf8_rep terminates: every iteration that does not exit
\* removes at least one byte from the remaining slice, the number of
\* iterations is at most the length of the range plus one, and the call
\* returns.
C25_LoopTerminates ==
  /\ [][IterationShrinks]_vars
  /\ []IterationBound
  /\ <>(pc = "done")

\* a range of three continuation bytes: one iteration per byte and one
\* that exits, the length of the range plus one
C25_Witness ==
  /\ RepDone /\ RangeInText /\ ret.outcome = "returned"
  /\ range[2] - range[1] = 3
  /\ ret.iters = 4
  /\ local.iters = 4 /\ local.bslice = <<>>
====
